---- MODULE Spec2Model ----
(***************************************************************************)
(* Room session and leadership protocol of the vibron socket server.       *)
(*                                                                         *)
(* The model follows the store-backed variant with error handling.  Every  *)
(* handler is an async function: it runs synchronously up to its next      *)
(* `await redis.<op>(...)`.  The single redis client executes commands in  *)
(* the order they are issued, so an action is one synchronous segment of a *)
(* handler: the continuation of the previous await together with the store *)
(* command it issues next.  Other handlers may run between two segments.   *)
(***************************************************************************)
EXTENDS Integers, Sequences, FiniteSets, TLC

\* ------------------------------------------------------------------ bounds
MaxCmds == 3

\* The handlers started and time steps taken where the periodic sync is not
\* counted and runs for ever (LiveSpec).
MaxLiveCmds == 2

\* ------------------------------------------------------- program constants
EX == 86400

\* --------------------------------------------------------------- JS values
Undefined == "undefined"
Null == "null"
Absent == "<no key>"

\* Socket ids are fresh per connection; only their equality is ever used.
SocketIds == {1, 2, 3}

\* ------------------------------------------------------------ input domains
\* Fraction digits (base 36) that Number.prototype.toString(36) prints for a
\* value of Math.random(): usually about eleven digits, fewer when the double
\* has a short base-36 expansion (0.5 prints as "0.i", 0 prints as "0").
RandomDigits ==
  { <<"4", "f", "z", "y", "o", "8", "2", "m">>,
    <<"i">> }

Times == {7}

SongPayloads ==
  { [songUrl |-> "u1", songId |-> "s1", title |-> "t1", artist |-> Undefined, image |-> "i1"] }

MoodPayloads == { [mood |-> "happy", language |-> "spanish"] }

\* ------------------------------------------------------------- pure helpers
Drop(s, n) == IF n >= Len(s) THEN <<>> ELSE SubSeq(s, n + 1, Len(s))

Take(s, n) == IF n >= Len(s) THEN s ELSE SubSeq(s, 1, n)

\* String.prototype.substring(start, end) with 0 <= start <= end.
substring(s, start, end) == Drop(Take(s, end), start)

\* Number.prototype.toString(36) of a double in [0, 1) with fraction digits d.
toString36(d) == IF d = <<>> THEN <<"0">> ELSE <<"0", ".">> \o d

\* Math.random().toString(36).substring(2, 8)
generateRoomId(d) == substring(toString36(d), 2, 8)

LowerAlnum ==
  { "a", "b", "c", "d", "e", "f", "g", "h", "i", "j", "k", "l", "m",
    "n", "o", "p", "q", "r", "s", "t", "u", "v", "w", "x", "y", "z",
    "0", "1", "2", "3", "4", "5", "6", "7", "8", "9" }

\* /^[a-z0-9]{6}$/.test(chars)
regexTest(chars) == Len(chars) = 6 /\ \A i \in 1 .. Len(chars) : chars[i] \in LowerAlnum

\* The typeof test is left out: RegExp.prototype.test converts its argument.
validRoomId_NoTypeof(arg) == regexTest(arg.chars)

\* typeof roomId === 'string' && /^[a-z0-9]{6}$/.test(roomId)
validRoomId(arg) == arg.type = "string" /\ regexTest(arg.chars)

Range(s) == { s[i] : i \in 1 .. Len(s) }

\* Every order in which KEYS may list the members of S.
KeyOrders(S) ==
  { p \in [1 .. Cardinality(S) -> S] : \A x \in S : \E i \in 1 .. Cardinality(S) : p[i] = x }

Put(f, k, v) == [x \in DOMAIN f \cup {k} |-> IF x = k THEN v ELSE f[x]]

Del(f, k) == [x \in DOMAIN f \ {k} |-> f[x]]

\* ---------------------------------------------------------------- records
\* JSON.stringify drops the keys whose value is undefined.
JSONstringify(obj) ==
  [obj EXCEPT !.mood = IF @ = Undefined THEN Absent ELSE @,
              !.language = IF @ = Undefined THEN Absent ELSE @,
              !.title = IF @ = Undefined THEN Absent ELSE @,
              !.artist = IF @ = Undefined THEN Absent ELSE @,
              !.image = IF @ = Undefined THEN Absent ELSE @]

\* JSON.parse gives back the keys the text holds.
JSONparse(text) == text

\* The mood tags are set whatever isMoodMode says.
newRoomState_AlwaysMood(id, isMoodMode) ==
  [currentSong |-> Null, currentSongId |-> Null, currentTime |-> 0, isPlaying |-> FALSE,
   users |-> <<id>>, mood |-> "neutral", language |-> "english", leaderId |-> id,
   title |-> Absent, artist |-> Absent, image |-> Absent]

newRoomState(id, isMoodMode) ==
  [currentSong |-> Null,
   currentSongId |-> Null,
   currentTime |-> 0,
   isPlaying |-> FALSE,
   users |-> <<id>>,
   mood |-> IF isMoodMode THEN "neutral" ELSE Undefined,
   language |-> IF isMoodMode THEN "english" ELSE Undefined,
   leaderId |-> id,
   title |-> Absent,
   artist |-> Absent,
   image |-> Absent]

\* The leader is picked before the departing socket is filtered out.
removeUser_ReassignBeforeFilter(state, id) ==
  LET keep(u) == u # id
      users == SelectSeq(state.users, keep)
  IN  [state EXCEPT !.users = users,
                    !.leaderId = IF @ = id /\ Len(state.users) > 0 THEN state.users[1] ELSE @]

\* No leader reassignment at all: users is filtered and leaderId kept.
removeUser_NoReassign(state, id) ==
  LET keep(u) == u # id
  IN  [state EXCEPT !.users = SelectSeq(state.users, keep)]

\* Only the first occurrence of the departing socket is taken out.
removeUser_FirstOnly(state, id) ==
  LET at == { i \in 1 .. Len(state.users) : state.users[i] = id }
      first == CHOOSE i \in at : \A j \in at : i <= j
      users == IF at = {} THEN state.users
               ELSE SubSeq(state.users, 1, first - 1)
                      \o SubSeq(state.users, first + 1, Len(state.users))
  IN  [state EXCEPT !.users = users,
                    !.leaderId = IF @ = id /\ Len(users) > 0 THEN users[1] ELSE @]

\* users.filter((id) => id !== socketId), then the leader reassignment.
removeUser(state, id) ==
  LET keep(u) == u # id
      users == SelectSeq(state.users, keep)
  IN  [state EXCEPT !.users = users,
                    !.leaderId = IF @ = id /\ Len(users) > 0 THEN users[1] ELSE @]

\* Membership is tested instead of leadership.
isLeader_AnyMember(text, id) == \E i \in 1 .. Len(JSONparse(text).users) : JSONparse(text).users[i] = id

\* socket.id === JSON.parse(roomStateStr).leaderId
isLeader(text, id) == id = JSONparse(text).leaderId

applyPlayPause(state, p) ==
  [state EXCEPT !.isPlaying = p.isPlaying, !.currentTime = p.currentTime]

\* The playback position is not reset.
applyChangeSong_KeepTime(state, p) ==
  [state EXCEPT !.currentSong = p.songUrl, !.currentSongId = p.songId,
                !.isPlaying = TRUE,
                !.title = p.title, !.artist = p.artist, !.image = p.image]

applyChangeSong(state, p) ==
  [state EXCEPT !.currentSong = p.songUrl, !.currentSongId = p.songId,
                !.currentTime = 0, !.isPlaying = TRUE,
                !.title = p.title, !.artist = p.artist, !.image = p.image]

applyChangeMoodSong(state, p) ==
  [state EXCEPT !.currentSong = p.songUrl, !.currentSongId = p.songId,
                !.mood = p.mood, !.language = p.language,
                !.currentTime = 0, !.isPlaying = TRUE,
                !.title = p.title, !.artist = p.artist]

applySeek(state, p) == [state EXCEPT !.currentTime = p.currentTime]

\* SET without EX: the key never expires (TTL -1).
setOptions_NoExpiry == [EX |-> -1]

\* { EX: 24 * 60 * 60 }
setOptions == [EX |-> EX]

\* ------------------------------------------------------------------- state
VARIABLES
  store,    \* redis: key (room id) -> JSON text of the room record
  ttl,      \* redis: key -> remaining seconds before the key expires
  age,      \* key -> seconds since the key was last written
  conn,     \* socket id -> "new" (no event yet) | "open" | "closed"
  groups,   \* socket.io rooms: set of <<room id, socket id>>
  task,     \* socket id -> the command handler of that socket in flight
  dtask,    \* socket id -> the disconnect handler of that socket
  ev,       \* what the last handler segment did (store command, emits, join)
  issued,   \* number of handlers started and of time steps taken
  serving,  \* the process is up
  redisUp,  \* the store answers; while it does not, every command is rejected
  stask     \* the pass of the periodic sync in flight

vars == <<store, ttl, age, conn, groups, task, dtask, ev, issued, serving, redisUp, stask>>

NoPayload ==
  [isMoodMode |-> FALSE, isPlaying |-> FALSE, currentTime |-> 0,
   songUrl |-> Undefined, songId |-> Undefined, title |-> Undefined,
   artist |-> Undefined, image |-> Undefined, mood |-> Undefined,
   language |-> Undefined]

NoArg == [type |-> "string", chars |-> <<>>]

NoTask ==
  [cmd |-> "none", pc |-> "idle", roomId |-> <<>>, arg |-> NoArg,
   payload |-> NoPayload, ok |-> TRUE, str |-> <<>>, state |-> <<>>,
   keys |-> <<>>, before |-> <<>>, wrote |-> {}]

NoData == [msg |-> "", roomId |-> <<>>, state |-> <<>>]

NoEv ==
  [c |-> 0, cmd |-> "none", op |-> "none", key |-> <<>>, ok |-> TRUE,
   emits |-> <<>>, joined |-> <<>>, rejected |-> FALSE, arg |-> NoArg, ttlWas |-> 0,
   was |-> <<>>, solo |-> FALSE]
\* ttlWas, was: the time to live and the value that a write replaced (at the end
\* of a disconnect handler: the record it read last); solo: see Solo.

\* The sockets whose connection is up.
Open == { c \in SocketIds : conn[c] # "closed" }

\* socket.emit(event, data)
socketEmit(id, event, data) ==
  [kind |-> "socket", id |-> id, room |-> <<>>, rcpt |-> {id} \cap Open,
   event |-> event, data |-> data]

\* io.to(roomId).emit(event, data)
roomEmit(roomId, event, data) ==
  [kind |-> "room", id |-> 0, room |-> roomId,
   rcpt |-> {c \in Open : <<roomId, c>> \in groups},
   event |-> event, data |-> data]

errorMsg(id, text) == socketEmit(id, "error", [NoData EXCEPT !.msg = text])

updateState(roomId, state) ==
  roomEmit(roomId, "updateState", [NoData EXCEPT !.state = <<state>>])

\* ------------------------------------------------------------ store commands
\* await redis.get(key): the text, or null when the key is absent.
redisGet(key) == IF key \in DOMAIN store THEN <<store[key]>> ELSE <<>>

\* await redis.set(key, value, options); ok = FALSE: the command is rejected.
redisSet(key, value, options, ok) ==
  /\ store' = IF ok THEN Put(store, key, value) ELSE store
  /\ ttl' = IF ok THEN Put(ttl, key, options.EX) ELSE ttl
  /\ age' = IF ok THEN Put(age, key, 0) ELSE age

\* TTL key: -2 when the key is absent.
redisTtl(key) == IF key \in DOMAIN ttl THEN ttl[key] ELSE -2

\* await redis.del(key)
redisDel(key, ok) ==
  /\ store' = IF ok THEN Del(store, key) ELSE store
  /\ ttl' = IF ok THEN Del(ttl, key) ELSE ttl
  /\ age' = IF ok THEN Del(age, key) ELSE age

\* await redis.keys('room:*'): the keys present, in any order.
redisKeys == KeyOrders(DOMAIN store)

Init ==
  /\ store = <<>>
  /\ ttl = <<>>
  /\ age = <<>>
  /\ conn = [c \in SocketIds |-> "new"]
  /\ groups = {}
  /\ task = [c \in SocketIds |-> NoTask]
  /\ dtask = [c \in SocketIds |-> NoTask]
  /\ ev = NoEv
  /\ issued = 0
  /\ serving \in BOOLEAN
  /\ redisUp = serving
  /\ stask = NoTask

\* io.on('connection') registers the handlers of a socket and logs.  Socket ids
\* are fresh and only their equality is used, and a connection has no effect on
\* the others before its first event: a socket enters the model with its first
\* event, and the sockets are numbered in the order of their first events.
Connected(c) ==
  \/ conn[c] = "open"
  \/ conn[c] = "new" /\ \A d \in SocketIds : d < c => conn[d] # "new"

CanStart(c) ==
  /\ serving
  /\ Connected(c)
  /\ task[c].pc = "idle"
  /\ issued < MaxCmds

\* ------------------------------------------------------------- createRoom
createRoom(c, isMoodMode, digits, ok) ==
  LET roomId == generateRoomId(digits)
      roomState == newRoomState(c, isMoodMode)
  IN  /\ CanStart(c)
      /\ redisSet(roomId, JSONstringify(roomState), setOptions, ok)
      /\ task' = [task EXCEPT ![c] =
                    [NoTask EXCEPT !.cmd = "createRoom", !.pc = "set", !.roomId = roomId,
                                   !.payload.isMoodMode = isMoodMode, !.ok = ok,
                                   !.state = <<roomState>>, !.before = redisGet(roomId),
                                   !.wrote = IF ok THEN {roomId} ELSE {}]]
      /\ ev' = [NoEv EXCEPT !.c = c, !.cmd = "createRoom", !.op = "set", !.key = roomId,
                            !.ok = ok, !.ttlWas = redisTtl(roomId), !.was = redisGet(roomId)]
      /\ issued' = issued + 1
      /\ conn' = [conn EXCEPT ![c] = "open"]
      /\ UNCHANGED <<groups, dtask, serving, redisUp, stask>>

\* No try/catch around the handler body: the rejection is unhandled and ends
\* the process.
catchError_Unhandled(c, cmd, key, text) ==
  /\ ev' = [NoEv EXCEPT !.c = c, !.cmd = cmd, !.rejected = TRUE, !.key = key]
  /\ serving' = FALSE

\* The handler's catch block: log, and tell the requesting socket.
catchError(c, cmd, key, text) ==
  /\ ev' = [NoEv EXCEPT !.c = c, !.cmd = cmd, !.emits = <<errorMsg(c, text)>>,
                        !.rejected = TRUE, !.key = key]
  /\ serving' = serving

createRoomDone(c) ==
  /\ serving
  /\ task[c].cmd = "createRoom" /\ task[c].pc = "set"
  /\ IF task[c].ok
       THEN /\ groups' = groups \cup {<<task[c].roomId, c>>}
            /\ ev' = [NoEv EXCEPT !.c = c, !.cmd = "createRoom", !.key = task[c].roomId,
                         !.joined = <<task[c].roomId>>,
                         !.emits = <<socketEmit(c, "roomCreated",
                                       [NoData EXCEPT !.roomId = task[c].roomId])>>]
            /\ serving' = serving
       ELSE /\ groups' = groups
            /\ catchError(c, "createRoom", task[c].roomId, "Failed to create room")
  /\ task' = [task EXCEPT ![c] = NoTask]
  /\ UNCHANGED <<store, ttl, age, conn, dtask, issued, redisUp, stask>>

\* --------------------------------------------------------------- joinRoom
JoinArgs ==
  { [type |-> "string", chars |-> generateRoomId(d)] : d \in RandomDigits }
    \cup { [type |-> "string", chars |-> <<"A", "B", "1", "2", "c", "d">>],
           [type |-> "number", chars |-> <<"1", "2", "3", "4", "5", "6">>] }

joinRoom(c, arg, ok) ==
  /\ CanStart(c)
  /\ issued' = issued + 1
  /\ IF ~validRoomId(arg)
       THEN /\ ev' = [NoEv EXCEPT !.c = c, !.cmd = "joinRoom", !.key = arg.chars,
                                  !.arg = arg,
                                  !.emits = <<errorMsg(c, "Invalid room ID")>>]
            /\ task' = task
       ELSE /\ ev' = [NoEv EXCEPT !.c = c, !.cmd = "joinRoom", !.op = "get",
                                  !.key = arg.chars, !.arg = arg, !.ok = ok]
            /\ task' = [task EXCEPT ![c] =
                          [NoTask EXCEPT !.cmd = "joinRoom", !.pc = "get",
                                         !.roomId = arg.chars, !.arg = arg, !.ok = ok,
                                         !.str = IF ok THEN redisGet(arg.chars) ELSE <<>>,
                                         !.before = redisGet(arg.chars)]]
  /\ conn' = [conn EXCEPT ![c] = "open"]
  /\ UNCHANGED <<store, ttl, age, groups, dtask, serving, redisUp, stask>>

\* The new user is put in front of the others.
pushUser_Front(state, id) == [state EXCEPT !.users = <<id>> \o @]

\* state.users.push(socket.id)
pushUser(state, id) == [state EXCEPT !.users = Append(@, id)]

\* A missing room is created on join.
joinRoomNotFound_Upsert(c, roomId) ==
  /\ ev' = [NoEv EXCEPT !.c = c, !.cmd = "joinRoom", !.key = roomId,
                        !.emits = <<errorMsg(c, "Room not found")>>]
  /\ task' = [task EXCEPT ![c] = NoTask]
  /\ redisSet(roomId, JSONstringify(newRoomState(c, FALSE)), setOptions, TRUE)
  /\ serving' = serving

\* else { socket.emit('error', 'Room not found') }
joinRoomNotFound(c, roomId) ==
  /\ ev' = [NoEv EXCEPT !.c = c, !.cmd = "joinRoom", !.key = roomId,
                        !.emits = <<errorMsg(c, "Room not found")>>]
  /\ task' = [task EXCEPT ![c] = NoTask]
  /\ UNCHANGED <<store, ttl, age, serving>>

joinRoomAfterGet(c, ok) ==
  LET t == task[c]
      roomId == t.roomId
  IN  /\ serving
      /\ t.cmd = "joinRoom" /\ t.pc = "get"
      /\ IF ~t.ok
           THEN /\ catchError(c, "joinRoom", roomId, "Failed to join room")
                /\ task' = [task EXCEPT ![c] = NoTask]
                /\ UNCHANGED <<store, ttl, age>>
           ELSE IF t.str # <<>>
             THEN LET state == pushUser(JSONparse(t.str[1]), c)
                  IN  /\ redisSet(roomId, JSONstringify(state), setOptions, ok)
                      /\ task' = [task EXCEPT ![c] =
                                    [t EXCEPT !.pc = "set", !.ok = ok, !.state = <<state>>,
                                              !.wrote = IF ok THEN {roomId} ELSE {}]]
                      /\ ev' = [NoEv EXCEPT !.c = c, !.cmd = "joinRoom", !.op = "set",
                                            !.key = roomId, !.ok = ok,
                                            !.ttlWas = redisTtl(roomId),
                                            !.was = redisGet(roomId)]
                      /\ serving' = serving
             ELSE joinRoomNotFound(c, roomId)
      /\ UNCHANGED <<conn, groups, dtask, issued, redisUp, stask>>

joinRoomAfterSet(c) ==
  LET t == task[c]
  IN  /\ serving
      /\ t.cmd = "joinRoom" /\ t.pc = "set"
      /\ IF t.ok
           THEN /\ groups' = groups \cup {<<t.roomId, c>>}
                /\ ev' = [NoEv EXCEPT !.c = c, !.cmd = "joinRoom", !.key = t.roomId,
                             !.joined = <<t.roomId>>,
                             !.emits = <<socketEmit(c, "roomJoined",
                                           [NoData EXCEPT !.roomId = t.roomId,
                                                          !.state = t.state])>>]
                /\ serving' = serving
           ELSE /\ groups' = groups
                /\ catchError(c, "joinRoom", t.roomId, "Failed to join room")
      /\ task' = [task EXCEPT ![c] = NoTask]
      /\ UNCHANGED <<store, ttl, age, conn, dtask, issued, redisUp, stask>>

\* ---------------------------------- playPause, changeSong, changeMoodSong, seek
LeaderCmds == { "playPause", "changeSong", "changeMoodSong", "seek" }

\* The room ids a client may name in a payload.
PayloadRoomIds == { generateRoomId(d) : d \in RandomDigits }

notLeaderText(cmd) ==
  CASE cmd = "playPause" -> "Only the room leader can control playback"
    [] cmd = "changeSong" -> "Only the room leader can change songs"
    [] cmd = "changeMoodSong" -> "Only the room leader can change songs"
    [] cmd = "seek" -> "Only the room leader can seek"

failedText(cmd) ==
  CASE cmd = "playPause" -> "Failed to update playback"
    [] cmd = "changeSong" -> "Failed to change song"
    [] cmd = "changeMoodSong" -> "Failed to change mood song"
    [] cmd = "seek" -> "Failed to seek"

applyCmd(cmd, state, p) ==
  CASE cmd = "playPause" -> applyPlayPause(state, p)
    [] cmd = "changeSong" -> applyChangeSong(state, p)
    [] cmd = "changeMoodSong" -> applyChangeMoodSong(state, p)
    [] cmd = "seek" -> applySeek(state, p)

\* const roomStateStr = await redis.get(`room:${roomId}`)
leaderCmdStart(c, cmd, roomId, payload, ok) ==
  /\ CanStart(c)
  /\ issued' = issued + 1
  /\ ev' = [NoEv EXCEPT !.c = c, !.cmd = cmd, !.op = "get", !.key = roomId, !.ok = ok]
  /\ task' = [task EXCEPT ![c] =
                [NoTask EXCEPT !.cmd = cmd, !.pc = "get", !.roomId = roomId,
                               !.payload = payload, !.ok = ok,
                               !.str = IF ok THEN redisGet(roomId) ELSE <<>>,
                               !.before = redisGet(roomId)]]
  /\ conn' = [conn EXCEPT ![c] = "open"]
  /\ UNCHANGED <<store, ttl, age, groups, dtask, serving, redisUp, stask>>

\* The change is applied to the record stored at the time of the write, not to
\* the copy that the handler read.
leaderCmdAfterGet_Fresh(c, cmd, ok) ==
  LET t == task[c]
      roomId == t.roomId
      cur == IF redisGet(roomId) # <<>> THEN redisGet(roomId) ELSE t.str
  IN  /\ serving
      /\ t.cmd = cmd /\ t.pc = "get"
      /\ IF ~t.ok
           THEN /\ catchError(c, cmd, roomId, failedText(cmd))
                /\ task' = [task EXCEPT ![c] = NoTask]
                /\ UNCHANGED <<store, ttl, age>>
           ELSE IF t.str # <<>> /\ isLeader(t.str[1], c)
             THEN LET state == applyCmd(cmd, JSONparse(cur[1]), t.payload)
                  IN  /\ redisSet(roomId, JSONstringify(state), setOptions, ok)
                      /\ task' = [task EXCEPT ![c] =
                                    [t EXCEPT !.pc = "set", !.ok = ok, !.state = <<state>>,
                                              !.wrote = IF ok THEN {roomId} ELSE {}]]
                      /\ ev' = [NoEv EXCEPT !.c = c, !.cmd = cmd, !.op = "set",
                                            !.key = roomId, !.ok = ok,
                                            !.ttlWas = redisTtl(roomId),
                                            !.was = redisGet(roomId)]
                      /\ serving' = serving
             ELSE /\ ev' = [NoEv EXCEPT !.c = c, !.cmd = cmd, !.key = roomId,
                                        !.emits = <<errorMsg(c, notLeaderText(cmd))>>]
                  /\ task' = [task EXCEPT ![c] = NoTask]
                  /\ UNCHANGED <<store, ttl, age, serving>>
      /\ UNCHANGED <<conn, groups, dtask, issued, redisUp, stask>>

leaderCmdAfterGet(c, cmd, ok) ==
  LET t == task[c]
      roomId == t.roomId
  IN  /\ serving
      /\ t.cmd = cmd /\ t.pc = "get"
      /\ IF ~t.ok
           THEN /\ catchError(c, cmd, roomId, failedText(cmd))
                /\ task' = [task EXCEPT ![c] = NoTask]
                /\ UNCHANGED <<store, ttl, age>>
           ELSE IF t.str # <<>> /\ isLeader(t.str[1], c)
             THEN LET state == applyCmd(cmd, JSONparse(t.str[1]), t.payload)
                  IN  /\ redisSet(roomId, JSONstringify(state), setOptions, ok)
                      /\ task' = [task EXCEPT ![c] =
                                    [t EXCEPT !.pc = "set", !.ok = ok, !.state = <<state>>,
                                              !.wrote = IF ok THEN {roomId} ELSE {}]]
                      /\ ev' = [NoEv EXCEPT !.c = c, !.cmd = cmd, !.op = "set",
                                            !.key = roomId, !.ok = ok,
                                            !.ttlWas = redisTtl(roomId),
                                            !.was = redisGet(roomId)]
                      /\ serving' = serving
             ELSE /\ ev' = [NoEv EXCEPT !.c = c, !.cmd = cmd, !.key = roomId,
                                        !.emits = <<errorMsg(c, notLeaderText(cmd))>>]
                  /\ task' = [task EXCEPT ![c] = NoTask]
                  /\ UNCHANGED <<store, ttl, age, serving>>
      /\ UNCHANGED <<conn, groups, dtask, issued, redisUp, stask>>

leaderCmdAfterSet(c, cmd) ==
  LET t == task[c]
  IN  /\ serving
      /\ t.cmd = cmd /\ t.pc = "set"
      /\ IF t.ok
           THEN /\ ev' = [NoEv EXCEPT !.c = c, !.cmd = cmd, !.key = t.roomId,
                             !.emits = <<updateState(t.roomId, t.state[1])>>]
                /\ serving' = serving
           ELSE catchError(c, cmd, t.roomId, failedText(cmd))
      /\ task' = [task EXCEPT ![c] = NoTask]
      /\ UNCHANGED <<store, ttl, age, conn, groups, dtask, issued, redisUp, stask>>

playPause(c) ==
  \E roomId \in PayloadRoomIds, isPlaying \in {FALSE}, currentTime \in Times, ok \in {redisUp} :
    leaderCmdStart(c, "playPause", roomId,
                   [NoPayload EXCEPT !.isPlaying = isPlaying, !.currentTime = currentTime], ok)

changeSong(c) ==
  \E roomId \in PayloadRoomIds, s \in SongPayloads, ok \in {redisUp} :
    leaderCmdStart(c, "changeSong", roomId,
                   [NoPayload EXCEPT !.songUrl = s.songUrl, !.songId = s.songId,
                                     !.title = s.title, !.artist = s.artist,
                                     !.image = s.image], ok)

changeMoodSong(c) ==
  \E roomId \in PayloadRoomIds, s \in SongPayloads, m \in MoodPayloads, ok \in {redisUp} :
    leaderCmdStart(c, "changeMoodSong", roomId,
                   [NoPayload EXCEPT !.songUrl = s.songUrl, !.songId = s.songId,
                                     !.title = s.title, !.artist = s.artist,
                                     !.mood = m.mood, !.language = m.language], ok)

seek(c) ==
  \E roomId \in PayloadRoomIds, currentTime \in Times, ok \in {redisUp} :
    leaderCmdStart(c, "seek", roomId, [NoPayload EXCEPT !.currentTime = currentTime], ok)

playPauseAfterGet(c) == \E ok \in {redisUp} : leaderCmdAfterGet(c, "playPause", ok)

changeSongAfterGet(c) == \E ok \in {redisUp} : leaderCmdAfterGet(c, "changeSong", ok)

changeMoodSongAfterGet(c) == \E ok \in {redisUp} : leaderCmdAfterGet(c, "changeMoodSong", ok)

seekAfterGet(c) == \E ok \in {redisUp} : leaderCmdAfterGet(c, "seek", ok)

playPauseAfterSet(c) == leaderCmdAfterSet(c, "playPause")

changeSongAfterSet(c) == leaderCmdAfterSet(c, "changeSong")

changeMoodSongAfterSet(c) == leaderCmdAfterSet(c, "changeMoodSong")

seekAfterSet(c) == leaderCmdAfterSet(c, "seek")

\* -------------------------------------------------------------- disconnect
\* The catch block of the disconnect handler: log only.
catchDisconnect(c, key) ==
  /\ ev' = [NoEv EXCEPT !.c = c, !.cmd = "disconnect", !.rejected = TRUE, !.key = key]
  /\ dtask' = [dtask EXCEPT ![c] = NoTask]
  /\ serving' = serving

\* Only segments of the disconnect handler of c have run since it started.
Solo(c) == ev.cmd = "disconnect" /\ ev.c = c /\ ev.solo

\* The head of the for loop: leave it when no key is left, else get the next key.
nextKey(c, ks, emits, wrote) ==
  IF ks = <<>>
    THEN /\ ev' = [NoEv EXCEPT !.c = c, !.cmd = "disconnect", !.emits = emits,
                               !.solo = Solo(c), !.was = dtask[c].str]
         /\ dtask' = [dtask EXCEPT ![c] = NoTask]
    ELSE \E ok \in {redisUp} :
           /\ ev' = [NoEv EXCEPT !.c = c, !.cmd = "disconnect", !.op = "get",
                                 !.key = Head(ks), !.ok = ok, !.emits = emits,
                                 !.solo = Solo(c)]
           /\ dtask' = [dtask EXCEPT ![c] =
                          [@ EXCEPT !.pc = "get", !.roomId = Head(ks), !.keys = Tail(ks),
                                    !.ok = ok, !.state = <<>>, !.wrote = wrote,
                                    !.str = IF ok THEN redisGet(Head(ks)) ELSE <<>>]]

\* The socket closes (socket.io takes it out of its groups) and the handler
\* starts: const keys = await redis.keys('room:*')
disconnect(c) ==
  /\ serving
  /\ Connected(c)
  /\ issued < MaxCmds
  /\ issued' = issued + 1
  /\ conn' = [conn EXCEPT ![c] = "closed"]
  /\ groups' = { g \in groups : g[2] # c }
  /\ \E ok \in {redisUp}, order \in redisKeys :
       /\ dtask' = [dtask EXCEPT ![c] =
                      [NoTask EXCEPT !.cmd = "disconnect", !.pc = "keys", !.ok = ok,
                                     !.keys = IF ok THEN order ELSE <<>>,
                                     !.before = store]]
       /\ ev' = [NoEv EXCEPT !.c = c, !.cmd = "disconnect", !.op = "keys", !.ok = ok,
                             !.solo = TRUE]
  /\ UNCHANGED <<store, ttl, age, task, serving, redisUp, stask>>

disconnectAfterKeys(c) ==
  LET t == dtask[c]
  IN  /\ serving
      /\ t.cmd = "disconnect" /\ t.pc = "keys"
      /\ IF ~t.ok
           THEN catchDisconnect(c, <<>>)
           ELSE nextKey(c, t.keys, <<>>, {}) /\ serving' = serving
      /\ UNCHANGED <<store, ttl, age, conn, groups, task, issued, redisUp, stask>>

disconnectAfterGet(c) ==
  LET t == dtask[c]
      key == t.roomId
  IN  /\ serving
      /\ t.cmd = "disconnect" /\ t.pc = "get"
      /\ IF ~t.ok
           THEN catchDisconnect(c, key) /\ UNCHANGED <<store, ttl, age>>
           ELSE IF t.str = <<>>
             THEN /\ nextKey(c, t.keys, <<>>, t.wrote)
                  /\ UNCHANGED <<store, ttl, age, serving>>
             ELSE LET state == removeUser(JSONparse(t.str[1]), c)
                  IN  \E ok \in {redisUp} :
                        /\ IF Len(state.users) = 0
                             THEN redisDel(key, ok)
                             ELSE redisSet(key, JSONstringify(state), setOptions, ok)
                        /\ dtask' = [dtask EXCEPT ![c] =
                                       [t EXCEPT !.pc = IF Len(state.users) = 0
                                                          THEN "del" ELSE "set",
                                                 !.ok = ok, !.state = <<state>>,
                                                 !.wrote = IF ok THEN @ \cup {key} ELSE @]]
                        /\ ev' = [NoEv EXCEPT !.c = c, !.cmd = "disconnect",
                                     !.op = IF Len(state.users) = 0 THEN "del" ELSE "set",
                                     !.key = key, !.ok = ok, !.ttlWas = redisTtl(key),
                                     !.was = redisGet(key), !.solo = Solo(c)]
                        /\ serving' = serving
      /\ UNCHANGED <<conn, groups, task, issued, redisUp, stask>>

disconnectAfterWrite(c) ==
  LET t == dtask[c]
      key == t.roomId
  IN  /\ serving
      /\ t.cmd = "disconnect" /\ t.pc \in {"del", "set"}
      /\ IF ~t.ok
           THEN catchDisconnect(c, key)
           ELSE /\ nextKey(c, t.keys,
                           IF t.pc = "set" THEN <<updateState(key, t.state[1])>> ELSE <<>>,
                           t.wrote)
                /\ serving' = serving
      /\ UNCHANGED <<store, ttl, age, conn, groups, task, issued, redisUp, stask>>

\* ----------------------------------------------------------- periodic sync
\* The catch block of the periodic sync: log only.
catchSync(key) ==
  /\ ev' = [NoEv EXCEPT !.cmd = "sync", !.key = key, !.ok = FALSE]
  /\ stask' = NoTask

\* The pass ends after the first key it has read.
syncNextKey_FirstOnly(ks, emits) ==
  IF ks = <<>> \/ stask.pc = "get"
    THEN /\ ev' = [NoEv EXCEPT !.cmd = "sync", !.emits = emits]
         /\ stask' = NoTask
    ELSE \E ok \in {redisUp} :
           /\ ev' = [NoEv EXCEPT !.cmd = "sync", !.op = "get", !.key = Head(ks),
                                 !.ok = ok, !.emits = emits]
           /\ stask' = [stask EXCEPT !.pc = "get", !.roomId = Head(ks), !.keys = Tail(ks),
                                     !.ok = ok,
                                     !.str = IF ok THEN redisGet(Head(ks)) ELSE <<>>]

\* The head of the for loop of the pass.
syncNextKey(ks, emits) ==
  IF ks = <<>>
    THEN /\ ev' = [NoEv EXCEPT !.cmd = "sync", !.emits = emits]
         /\ stask' = NoTask
    ELSE \E ok \in {redisUp} :
           /\ ev' = [NoEv EXCEPT !.cmd = "sync", !.op = "get", !.key = Head(ks),
                                 !.ok = ok, !.emits = emits]
           /\ stask' = [stask EXCEPT !.pc = "get", !.roomId = Head(ks), !.keys = Tail(ks),
                                     !.ok = ok,
                                     !.str = IF ok THEN redisGet(Head(ks)) ELSE <<>>]

\* The timer fires and a pass starts: const keys = await redis.keys('room:*').
\* The interval is long against a pass: one pass is in flight at a time.  The
\* passes are counted with the handlers when `counted`.
periodicSync(counted) ==
  /\ serving
  /\ stask.pc = "idle"
  /\ counted => issued < MaxCmds
  /\ issued' = IF counted THEN issued + 1 ELSE issued
  /\ \E ok \in {redisUp}, order \in redisKeys :
       /\ stask' = [NoTask EXCEPT !.cmd = "sync", !.pc = "keys", !.ok = ok,
                                  !.keys = IF ok THEN order ELSE <<>>]
       /\ ev' = [NoEv EXCEPT !.cmd = "sync", !.op = "keys", !.ok = ok]
  /\ UNCHANGED <<store, ttl, age, conn, groups, task, dtask, serving, redisUp>>

syncAfterKeys ==
  /\ serving
  /\ stask.cmd = "sync" /\ stask.pc = "keys"
  /\ IF ~stask.ok THEN catchSync(<<>>) ELSE syncNextKey(stask.keys, <<>>)
  /\ UNCHANGED <<store, ttl, age, conn, groups, task, dtask, issued, serving, redisUp>>

\* The record that the pass broadcasts for a key it has read.
syncState_Current(key, text) == IF key \in DOMAIN store THEN JSONparse(store[key]) ELSE JSONparse(text)

\* const state = JSON.parse(roomStateStr)
syncState(key, text) == JSONparse(text)

syncAfterGet ==
  /\ serving
  /\ stask.cmd = "sync" /\ stask.pc = "get"
  /\ IF ~stask.ok
       THEN catchSync(stask.roomId)
       ELSE syncNextKey(stask.keys,
                        IF stask.str # <<>>
                          THEN <<updateState(stask.roomId, syncState(stask.roomId, stask.str[1]))>>
                          ELSE <<>>)
  /\ UNCHANGED <<store, ttl, age, conn, groups, task, dtask, issued, serving, redisUp>>

\* ------------------------------------------------------------------- time
TickSteps == { EX \div 2 }

Expired(k, d) == ttl[k] >= 0 /\ ttl[k] - d <= 0

\* d seconds pass: redis purges the keys whose time to live has run out.
Tick(d) ==
  LET live == { k \in DOMAIN store : ~Expired(k, d) }
      older(a) == IF a + d > 2 * EX THEN 2 * EX ELSE a + d
  IN  /\ DOMAIN store # {}
      /\ issued < MaxCmds
      /\ issued' = issued + 1
      /\ store' = [k \in live |-> store[k]]
      /\ ttl' = [k \in live |-> IF ttl[k] < 0 THEN ttl[k] ELSE ttl[k] - d]
      /\ age' = [k \in live |-> older(age[k])]
      /\ ev' = [NoEv EXCEPT !.cmd = "tick"]
      /\ UNCHANGED <<conn, groups, task, dtask, serving, redisUp, stask>>

\* The connection to the store is lost, or comes back (StoreUnavailable).
StoreFault ==
  /\ serving
  /\ issued < MaxCmds
  /\ issued' = issued + 1
  /\ redisUp' = ~redisUp
  /\ ev' = [NoEv EXCEPT !.cmd = "fault"]
  /\ UNCHANGED <<store, ttl, age, conn, groups, task, dtask, serving, stask>>

\* ---------------------------------------------------------- specification
Next ==
  \/ \E c \in SocketIds, isMoodMode \in BOOLEAN, d \in RandomDigits, ok \in {redisUp} :
       createRoom(c, isMoodMode, d, ok)
  \/ \E c \in SocketIds : createRoomDone(c)
  \/ \E c \in SocketIds, arg \in JoinArgs, ok \in {redisUp} : joinRoom(c, arg, ok)
  \/ \E c \in SocketIds, ok \in {redisUp} : joinRoomAfterGet(c, ok)
  \/ \E c \in SocketIds : joinRoomAfterSet(c)
  \/ \E c \in SocketIds : playPause(c)
  \/ \E c \in SocketIds : playPauseAfterGet(c)
  \/ \E c \in SocketIds : playPauseAfterSet(c)
  \/ \E c \in SocketIds : changeSong(c)
  \/ \E c \in SocketIds : changeSongAfterGet(c)
  \/ \E c \in SocketIds : changeSongAfterSet(c)
  \/ \E c \in SocketIds : changeMoodSong(c)
  \/ \E c \in SocketIds : changeMoodSongAfterGet(c)
  \/ \E c \in SocketIds : changeMoodSongAfterSet(c)
  \/ \E c \in SocketIds : seek(c)
  \/ \E c \in SocketIds : seekAfterGet(c)
  \/ \E c \in SocketIds : seekAfterSet(c)
  \/ \E c \in SocketIds : disconnect(c)
  \/ \E c \in SocketIds : disconnectAfterKeys(c)
  \/ \E c \in SocketIds : disconnectAfterGet(c)
  \/ \E c \in SocketIds : disconnectAfterWrite(c)
  \/ periodicSync(TRUE)
  \/ syncAfterKeys
  \/ syncAfterGet
  \/ \E d \in TickSteps : Tick(d)
  \/ StoreFault

Spec == Init /\ [][Next]_vars

\* The same server with the timer of the periodic sync left free: the handlers
\* and time steps are counted up to MaxLiveCmds, the passes are not counted.
LiveNext ==
  \/ \E c \in SocketIds, isMoodMode \in BOOLEAN, d \in RandomDigits, ok \in {redisUp} :
       issued < MaxLiveCmds /\ createRoom(c, isMoodMode, d, ok)
  \/ \E c \in SocketIds : createRoomDone(c)
  \/ \E c \in SocketIds, arg \in JoinArgs, ok \in {redisUp} :
       issued < MaxLiveCmds /\ joinRoom(c, arg, ok)
  \/ \E c \in SocketIds, ok \in {redisUp} : joinRoomAfterGet(c, ok)
  \/ \E c \in SocketIds : joinRoomAfterSet(c)
  \/ \E c \in SocketIds : issued < MaxLiveCmds /\ playPause(c)
  \/ \E c \in SocketIds : playPauseAfterGet(c)
  \/ \E c \in SocketIds : playPauseAfterSet(c)
  \/ \E c \in SocketIds : issued < MaxLiveCmds /\ changeSong(c)
  \/ \E c \in SocketIds : changeSongAfterGet(c)
  \/ \E c \in SocketIds : changeSongAfterSet(c)
  \/ \E c \in SocketIds : issued < MaxLiveCmds /\ changeMoodSong(c)
  \/ \E c \in SocketIds : changeMoodSongAfterGet(c)
  \/ \E c \in SocketIds : changeMoodSongAfterSet(c)
  \/ \E c \in SocketIds : issued < MaxLiveCmds /\ seek(c)
  \/ \E c \in SocketIds : seekAfterGet(c)
  \/ \E c \in SocketIds : seekAfterSet(c)
  \/ \E c \in SocketIds : issued < MaxLiveCmds /\ disconnect(c)
  \/ \E c \in SocketIds : disconnectAfterKeys(c)
  \/ \E c \in SocketIds : disconnectAfterGet(c)
  \/ \E c \in SocketIds : disconnectAfterWrite(c)
  \/ periodicSync(FALSE)
  \/ syncAfterKeys
  \/ syncAfterGet
  \/ \E d \in TickSteps : issued < MaxLiveCmds /\ Tick(d)
  \/ issued < MaxLiveCmds /\ StoreFault

\* setInterval fires the callback every five seconds for as long as the process
\* runs, and every store command of a pass is answered or rejected: a pass that
\* can start does start, and a pass in flight goes on.
LiveSpec ==
  /\ Init
  /\ [][LiveNext]_vars
  /\ WF_vars(periodicSync(FALSE))
  /\ WF_vars(syncAfterKeys)
  /\ WF_vars(syncAfterGet)

\* ------------------------------------------------------------------ claims
\* C1: in every reachable state, every room record in the store has its
\* leaderId among its users, whatever the interleaving of the handlers.
C1_LeaderIsMember ==
  \A k \in DOMAIN store : \E i \in 1 .. Len(store[k].users) : store[k].users[i] = store[k].leaderId

\* A disconnect handler has just persisted a room its own socket was leading.
C1_Witness ==
  /\ ev.cmd = "disconnect" /\ ev.op = "set" /\ ev.ok
  /\ dtask[ev.c].str[1].leaderId = ev.c
  /\ store[ev.key].leaderId # ev.c

\* C2: a playPause, changeSong, changeMoodSong or seek whose read of the room
\* shows another socket as leader changes neither the store nor the groups and
\* broadcasts nothing; it ends with one error event, sent to the caller alone.
C2_NonLeaderRejected ==
  [][\A c \in SocketIds :
       LET t == task[c]
           u == task'[c]
       IN  /\ ( /\ t.pc = "idle" /\ u.cmd \in LeaderCmds /\ u.pc = "get" /\ u.ok
                /\ u.str # <<>> /\ u.str[1].leaderId # c )
               => (store' = store /\ ttl' = ttl /\ groups' = groups /\ ev'.emits = <<>>)
           /\ ( /\ t.cmd \in LeaderCmds /\ t.pc = "get" /\ t.ok
                /\ t.str # <<>> /\ t.str[1].leaderId # c /\ u # t )
               => /\ store' = store /\ ttl' = ttl /\ groups' = groups
                  /\ u = NoTask
                  /\ ev'.op = "none"
                  /\ Len(ev'.emits) = 1
                  /\ ev'.emits[1].kind = "socket" /\ ev'.emits[1].id = c
                  /\ ev'.emits[1].event = "error"
                  /\ ev'.emits[1].data.msg = notLeaderText(t.cmd)]_vars

\* A member that is not the leader has just been refused a command on its room.
C2_Witness ==
  /\ ev.cmd \in LeaderCmds /\ ev.op = "none" /\ ~ev.rejected
  /\ Len(ev.emits) = 1 /\ ev.emits[1].event = "error"
  /\ ev.key \in DOMAIN store
  /\ store[ev.key].leaderId # ev.c
  /\ \E i \in 1 .. Len(store[ev.key].users) : store[ev.key].users[i] = ev.c

\* C3: when the disconnect handler of a room's leader persists the room (other
\* members remain), the record written has the users left after the removal and
\* their first element as leaderId, and the updateState the handler then sends
\* to the room carries that record.
C3_LeaderHandover ==
  [][\A c \in SocketIds :
       LET t == dtask[c]
           u == dtask'[c]
           stays(x) == x # c
           left == SelectSeq(t.str[1].users, stays)
       IN  /\ ( /\ t.pc = "get" /\ t.ok /\ t.str # <<>> /\ t.str[1].leaderId = c
                /\ left # <<>> /\ u # t /\ ev'.ok )
               => /\ ev'.op = "set" /\ ev'.key = t.roomId
                  /\ store'[t.roomId].users = left
                  /\ store'[t.roomId].leaderId = left[1]
           /\ ( /\ t.pc = "set" /\ t.ok /\ t.str[1].leaderId = c /\ u # t )
               => /\ Len(ev'.emits) = 1
                  /\ ev'.emits[1].kind = "room" /\ ev'.emits[1].room = t.roomId
                  /\ ev'.emits[1].event = "updateState"
                  /\ ev'.emits[1].data.state[1].users = left
                  /\ ev'.emits[1].data.state[1].leaderId = left[1]]_vars

\* The handler of a departed leader has just broadcast the room with its new leader.
C3_Witness ==
  /\ ev.cmd = "disconnect" /\ Len(ev.emits) = 1
  /\ ev.emits[1].event = "updateState"
  /\ ev.emits[1].data.state[1].leaderId # ev.c
  /\ ev.emits[1].room \in DOMAIN store
  /\ store[ev.emits[1].room].leaderId = ev.emits[1].data.state[1].users[1]
  /\ ev.c \notin Range(store[ev.emits[1].room].users)
  /\ ev.emits[1].rcpt # {}

\* No record in the store has an empty users sequence.
NoEmptyUsers == \A k \in DOMAIN store : store[k].users # <<>>

\* C4: no record with an empty users sequence is ever in the store: a disconnect
\* that removes the last member deletes the record, and a joinRoom on that room
\* id issued next is answered 'Room not found'.
C4_EmptyRoomDeleted ==
  [][/\ NoEmptyUsers'
     /\ \A c \in SocketIds :
          LET t == dtask[c]
              stays(x) == x # c
          IN  ( /\ t.pc = "get" /\ t.ok /\ t.str # <<>>
                /\ SelectSeq(t.str[1].users, stays) = <<>> /\ dtask'[c] # t /\ ev'.ok )
              => (ev'.op = "del" /\ t.roomId \notin DOMAIN store')
     /\ \A c \in SocketIds :
          ( /\ ev.cmd = "disconnect" /\ ev.op = "del" /\ ev.ok
            /\ ev'.cmd = "joinRoom" /\ ev'.c = c /\ task[c].pc = "idle" /\ issued' # issued
            /\ ev'.arg = [type |-> "string", chars |-> ev.key] )
          => (ev'.emits = <<>> /\ task'[c].pc = "get" /\ task'[c].str = <<>>)
     /\ \A c \in SocketIds :
          ( /\ task[c].cmd = "joinRoom" /\ task[c].pc = "get" /\ task[c].ok
            /\ task[c].str = <<>> /\ task'[c] # task[c] )
          => (Len(ev'.emits) = 1 /\ ev'.emits[1].data.msg = "Room not found")]_vars

\* C5: the createRoom of socket c that succeeds writes, under the room id it
\* then emits in roomCreated, a record with users = [c], leaderId = c,
\* currentSong = null, currentTime = 0, isPlaying = false, and with
\* mood = 'neutral' and language = 'english' exactly when isMoodMode was true
\* (no mood and no language key otherwise).
C5_CreatedRecord ==
  [][\A c \in SocketIds :
       LET t == task[c]
           u == task'[c]
       IN  /\ (t.pc = "idle" /\ u.cmd = "createRoom" /\ u.ok)
               => /\ ev'.op = "set" /\ ev'.key = u.roomId
                  /\ u.roomId \in DOMAIN store'
                  /\ store'[u.roomId].users = <<c>>
                  /\ store'[u.roomId].leaderId = c
                  /\ store'[u.roomId].currentSong = Null
                  /\ store'[u.roomId].currentTime = 0
                  /\ store'[u.roomId].isPlaying = FALSE
                  /\ store'[u.roomId].mood = IF u.payload.isMoodMode THEN "neutral" ELSE Absent
                  /\ store'[u.roomId].language = IF u.payload.isMoodMode THEN "english" ELSE Absent
           /\ (t.cmd = "createRoom" /\ t.pc = "set" /\ t.ok /\ u # t)
               => /\ Len(ev'.emits) = 1
                  /\ ev'.emits[1].kind = "socket" /\ ev'.emits[1].id = c
                  /\ ev'.emits[1].event = "roomCreated"
                  /\ ev'.emits[1].data.roomId = t.roomId]_vars

\* A room has just been created without mood mode: its record has no mood key.
C5_Witness ==
  /\ ev.cmd = "createRoom" /\ ev.op = "set" /\ ev.ok
  /\ ~task[ev.c].payload.isMoodMode
  /\ store[ev.key].mood = Absent
  /\ \E k \in DOMAIN store : store[k].mood = "neutral"

\* C6: a joinRoom whose argument is not a string of exactly six characters of
\* [a-z0-9] is answered with the error 'Invalid room ID' to the caller, issues
\* no store command and joins no group.
C6_InvalidRoomId ==
  [][\A c \in SocketIds :
       ( /\ ev'.cmd = "joinRoom" /\ ev'.c = c /\ task[c].pc = "idle" /\ issued' # issued
         /\ ~( /\ ev'.arg.type = "string"
               /\ Len(ev'.arg.chars) = 6
               /\ Range(ev'.arg.chars) \subseteq LowerAlnum ) )
       => /\ ev'.op = "none"
          /\ ev'.joined = <<>>
          /\ Len(ev'.emits) = 1
          /\ ev'.emits[1].kind = "socket" /\ ev'.emits[1].id = c
          /\ ev'.emits[1].event = "error"
          /\ ev'.emits[1].data.msg = "Invalid room ID"
          /\ store' = store /\ ttl' = ttl /\ groups' = groups /\ task' = task]_vars

\* A joinRoom with six digits given as a number has just been refused while a
\* room exists.
C6_Witness ==
  /\ ev.cmd = "joinRoom" /\ ev.arg.type = "number" /\ Len(ev.arg.chars) = 6
  /\ Len(ev.emits) = 1 /\ ev.emits[1].data.msg = "Invalid room ID"
  /\ DOMAIN store # {}

\* C7: a joinRoom with a well-formed room id that has no record in the store is
\* answered 'Room not found' to the caller and changes nothing in the store.
C7_RoomNotFound ==
  [][\A c \in SocketIds :
       LET t == task[c]
           u == task'[c]
       IN  /\ (t.pc = "idle" /\ u.cmd = "joinRoom" /\ u.pc = "get")
               => (store' = store /\ ttl' = ttl)
           /\ (t.cmd = "joinRoom" /\ t.pc = "get" /\ t.ok /\ t.str = <<>> /\ u # t)
               => /\ store' = store /\ ttl' = ttl /\ groups' = groups
                  /\ ev'.op = "none"
                  /\ Len(ev'.emits) = 1
                  /\ ev'.emits[1].kind = "socket" /\ ev'.emits[1].id = c
                  /\ ev'.emits[1].event = "error"
                  /\ ev'.emits[1].data.msg = "Room not found"]_vars

\* A joinRoom has just been answered 'Room not found' while another room exists.
C7_Witness ==
  /\ ev.cmd = "joinRoom" /\ Len(ev.emits) = 1
  /\ ev.emits[1].data.msg = "Room not found"
  /\ ev.key \notin DOMAIN store
  /\ DOMAIN store # {}

\* C8: a changeSong or changeMoodSong accepted from the leader writes, and then
\* broadcasts, a record with currentTime = 0 and isPlaying = true whatever they
\* were, currentSong and currentSongId equal to the payload's songUrl and
\* songId, and for changeMoodSong mood and language equal to the payload's.
C8_SongChange ==
  [][\A c \in SocketIds :
       LET t == task[c]
           u == task'[c]
           p == t.payload
           moodOk(r) == t.cmd = "changeMoodSong" => (r.mood = p.mood /\ r.language = p.language)
           asClaimed(r) ==
             /\ r.currentTime = 0 /\ r.isPlaying = TRUE
             /\ r.currentSong = p.songUrl /\ r.currentSongId = p.songId
             /\ moodOk(r)
       IN  /\ ( /\ t.cmd \in {"changeSong", "changeMoodSong"} /\ t.pc = "get" /\ t.ok
                /\ t.str # <<>> /\ t.str[1].leaderId = c /\ u # t /\ ev'.ok )
               => /\ ev'.op = "set" /\ ev'.key = t.roomId
                  /\ asClaimed(store'[t.roomId])
           /\ ( /\ t.cmd \in {"changeSong", "changeMoodSong"} /\ t.pc = "set" /\ t.ok
                /\ u # t )
               => /\ Len(ev'.emits) = 1
                  /\ ev'.emits[1].kind = "room" /\ ev'.emits[1].room = t.roomId
                  /\ ev'.emits[1].event = "updateState"
                  /\ asClaimed(ev'.emits[1].data.state[1])]_vars

\* A song change has just been written over a paused record at position 7.
C8_Witness ==
  /\ ev.cmd \in {"changeSong", "changeMoodSong"} /\ ev.op = "set" /\ ev.ok
  /\ task[ev.c].str[1].currentTime = 7
  /\ ~task[ev.c].str[1].isPlaying
  /\ store[ev.key].currentTime = 0 /\ store[ev.key].isPlaying

\* C9: every write of a room record sets the record's remaining time to live to
\* exactly 86400 seconds, so no record is in the store 86400 seconds after it
\* was last written.
C9_TtlRefreshed ==
  /\ (ev.op = "set" /\ ev.ok) => (ev.key \in DOMAIN store /\ ttl[ev.key] = 86400)
  /\ \A k \in DOMAIN store : age[k] < 86400 /\ ttl[k] = 86400 - age[k]

\* A record with 43200 seconds left has just been written again.
C9_Witness ==
  /\ ev.op = "set" /\ ev.ok /\ ev.ttlWas = 43200
  /\ ttl[ev.key] = 86400

\* C10 as stated: when a store command fails in a handler the failure is caught,
\* the process keeps serving, an error event goes to the requesting socket, and
\* the record the handler was working on is what it was when the handler started.
C10_AsStated ==
  [][ev'.rejected =>
       LET c == ev'.c
           k == ev'.key
           now == IF k \in DOMAIN store' THEN <<store'[k]>> ELSE <<>>
           before == IF ev'.cmd = "disconnect"
                       THEN IF k \in DOMAIN dtask[c].before
                              THEN <<dtask[c].before[k]>> ELSE <<>>
                       ELSE task[c].before
       IN  /\ serving'
           /\ Len(ev'.emits) = 1
           /\ ev'.emits[1].kind = "socket" /\ ev'.emits[1].id = c
           /\ ev'.emits[1].event = "error"
           /\ now = before]_vars

\* C10 amended: when a store command fails in a handler the failure is caught and
\* the process keeps serving; the handler ends there, issuing no further store
\* command and having written nothing to the record it was working on; the
\* handlers of the client commands send one error event to the requesting socket
\* alone, the disconnect handler sends nothing.
C10_FailureCaught ==
  [][ev'.rejected =>
       LET c == ev'.c
           t == IF ev'.cmd = "disconnect" THEN dtask[c] ELSE task[c]
           u == IF ev'.cmd = "disconnect" THEN dtask'[c] ELSE task'[c]
       IN  /\ serving'
           /\ ~t.ok /\ u = NoTask
           /\ ev'.op = "none"
           /\ store' = store /\ ttl' = ttl /\ groups' = groups
           /\ ev'.key \notin t.wrote
           /\ IF ev'.cmd = "disconnect"
                THEN ev'.emits = <<>>
                ELSE /\ Len(ev'.emits) = 1
                     /\ ev'.emits[1].kind = "socket" /\ ev'.emits[1].id = c
                     /\ ev'.emits[1].event = "error"
                     /\ ev'.emits[1].data.msg \in
                          {"Failed to create room", "Failed to join room",
                           "Failed to update playback", "Failed to change song",
                           "Failed to change mood song", "Failed to seek"}]_vars

\* The set of a leader's seek has just been rejected: the room is still stored
\* and the leader is told.
C10_Witness ==
  /\ ev.rejected /\ ev.cmd = "seek" /\ serving
  /\ ev.key \in DOMAIN store /\ store[ev.key].leaderId = ev.c
  /\ Len(ev.emits) = 1 /\ ev.emits[1].data.msg = "Failed to seek"

\* C11: in every reachable state no socket id occurs twice in the users of a
\* stored room record, also after the creator of a room, or a member of it,
\* calls joinRoom on that room.
C11_NoDuplicateUsers ==
  \A k \in DOMAIN store :
    \A i, j \in 1 .. Len(store[k].users) : i # j => store[k].users[i] # store[k].users[j]

\* C12: every room id that createRoom produces is exactly six characters of
\* [a-z0-9], so every id sent in roomCreated passes the format check of joinRoom.
C12_RoomIdFormat ==
  /\ \A c \in SocketIds :
       task[c].cmd = "createRoom"
         => (Len(task[c].roomId) = 6 /\ Range(task[c].roomId) \subseteq LowerAlnum)
  /\ \A i \in 1 .. Len(ev.emits) :
       ev.emits[i].event = "roomCreated"
         => validRoomId([type |-> "string", chars |-> ev.emits[i].data.roomId])

\* C13: when the disconnect handler of socket c runs to its end with no store
\* failure and no segment of another handler in between, c is in the users of
\* no stored record: of every room that was in the store when the handler
\* listed the keys, what is left is the record with every occurrence of c
\* taken out of users, or nothing when no other user was in it.
C13_DisconnectRemoves ==
  [][\A c \in SocketIds :
       LET before == dtask[c].before
           stays(x) == x # c
       IN  ( /\ dtask[c].pc # "idle" /\ dtask'[c].pc = "idle"
             /\ ev'.solo /\ ~ev'.rejected )
           => /\ \A k \in DOMAIN store' : c \notin Range(store'[k].users)
              /\ DOMAIN store' \subseteq DOMAIN before
              /\ \A k \in DOMAIN before :
                   IF k \in DOMAIN store'
                     THEN store'[k].users = SelectSeq(before[k].users, stays)
                     ELSE SelectSeq(before[k].users, stays) = <<>>]_vars

\* A disconnect handler has just ended, undisturbed, after it took its socket
\* out of a room that it left to the other users.
C13_Witness ==
  /\ ev.cmd = "disconnect" /\ ev.op = "none" /\ ev.solo /\ ~ev.rejected
  /\ dtask[ev.c].pc = "idle"
  /\ ev.was # <<>> /\ ev.c \in Range(ev.was[1].users)
  /\ Len(ev.emits) = 1 /\ ev.emits[1].room \in DOMAIN store
  /\ store[ev.emits[1].room].users # <<>>
  /\ ev.c \notin Range(store[ev.emits[1].room].users)

\* C14: a pass of the periodic sync leaves the store as it is: its segments
\* issue only keys and get, change no record and no remaining time to live, and
\* every updateState it sends goes to the group of the room it has just read
\* and carries exactly the record it read.
C14_SyncReadOnly ==
  [][stask' # stask =>
       /\ store' = store /\ ttl' = ttl /\ age' = age /\ groups' = groups
       /\ ev'.cmd = "sync" /\ ev'.op \in {"keys", "get", "none"}
       /\ Len(ev'.emits) = IF stask.pc = "get" /\ stask.ok /\ stask.str # <<>> THEN 1 ELSE 0
       /\ \A i \in 1 .. Len(ev'.emits) :
            /\ ev'.emits[i].kind = "room" /\ ev'.emits[i].room = stask.roomId
            /\ ev'.emits[i].event = "updateState"
            /\ ev'.emits[i].data.state = stask.str]_vars

\* A pass has just broadcast, to a listening member, a record with half of its
\* time to live gone, and the time to live is still what it was.
C14_Witness ==
  /\ ev.cmd = "sync" /\ Len(ev.emits) = 1
  /\ ev.emits[1].rcpt # {}
  /\ ev.emits[1].room \in DOMAIN store
  /\ <<store[ev.emits[1].room]>> = ev.emits[1].data.state
  /\ ttl[ev.emits[1].room] = 43200

\* C15: every handler that has persisted a changed room record (joinRoom,
\* playPause, changeSong, changeMoodSong, seek, and a disconnect that leaves
\* users) then sends an updateState with the record it wrote to the group of
\* the room; so the users of a room are sent the record when a socket joins.
C15_BroadcastOnPersist ==
  [][\A c \in SocketIds :
       LET sent(t) ==
             \E i \in 1 .. Len(ev'.emits) :
               /\ ev'.emits[i].kind = "room" /\ ev'.emits[i].room = t.roomId
               /\ ev'.emits[i].event = "updateState"
               /\ ev'.emits[i].data.state = t.state
               /\ ev'.emits[i].rcpt = { x \in Open : <<t.roomId, x>> \in groups }
       IN  /\ ( /\ task[c].cmd \in LeaderCmds \cup {"joinRoom"}
                /\ task[c].pc = "set" /\ task[c].ok /\ task'[c] # task[c] )
               => sent(task[c])
           /\ (dtask[c].pc = "set" /\ dtask[c].ok /\ dtask'[c] # dtask[c])
               => sent(dtask[c])]_vars

\* The records a and b agree on every field outside F.
SameExcept(a, b, F) == \A f \in DOMAIN a \ F : a[f] = b[f]

\* C16: the record a handler writes differs from the record it read only in
\* the fields of its command: joinRoom only in users, which is the users read
\* with the caller appended; playPause only in isPlaying and currentTime; seek
\* only in currentTime; changeSong and changeMoodSong not in users or leaderId;
\* disconnect only in users and leaderId, and in leaderId only when the
\* departing socket was the leader.
C16_FrameOfWrites ==
  [][\A c \in SocketIds :
       LET t == task[c]
           d == dtask[c]
           k == ev'.key
       IN  /\ ( /\ t.pc = "get" /\ t.ok /\ t.str # <<>> /\ task'[c] # t
                /\ ev'.op = "set" /\ ev'.ok )
               => LET read == t.str[1]
                      written == store'[k]
                  IN  /\ k = t.roomId
                      /\ t.cmd = "joinRoom"
                           => /\ SameExcept(read, written, {"users"})
                              /\ written.users = read.users \o <<c>>
                      /\ t.cmd = "playPause"
                           => SameExcept(read, written, {"isPlaying", "currentTime"})
                      /\ t.cmd = "seek" => SameExcept(read, written, {"currentTime"})
                      /\ t.cmd \in {"changeSong", "changeMoodSong"}
                           => (written.users = read.users /\ written.leaderId = read.leaderId)
           /\ ( /\ d.pc = "get" /\ d.ok /\ d.str # <<>> /\ dtask'[c] # d
                /\ ev'.op = "set" /\ ev'.ok )
               => LET read == d.str[1]
                      written == store'[k]
                  IN  /\ k = d.roomId
                      /\ SameExcept(read, written, {"users", "leaderId"})
                      /\ read.leaderId # c => written.leaderId = read.leaderId]_vars

\* A joinRoom has just written a record that had been sought to position 7:
\* the caller is the last of its users and the position is still 7.
C16_Witness ==
  /\ ev.cmd = "joinRoom" /\ ev.op = "set" /\ ev.ok
  /\ task[ev.c].str[1].currentTime = 7
  /\ store[ev.key].currentTime = 7
  /\ Len(store[ev.key].users) >= 2
  /\ store[ev.key].users[1] # ev.c
  /\ store[ev.key].users[Len(store[ev.key].users)] = ev.c

\* C17: a handler does an unlocked get and then a set, so the later of two sets
\* on a room replaces the earlier one.  The set of a leader's command writes
\* the users of the copy the handler read, whatever users are stored by then,
\* and joinRoom ends with roomJoined and the caller in the group whatever is
\* stored by then; C17_Witness is the state that the claim says is reachable.
C17_StaleCopyWins ==
  [][\A c \in SocketIds :
       LET t == task[c]
       IN  /\ ( /\ t.cmd \in LeaderCmds /\ t.pc = "get" /\ t.ok /\ t.str # <<>>
                /\ task'[c] # t /\ ev'.op = "set" /\ ev'.ok )
               => /\ store'[t.roomId].users = t.str[1].users
                  /\ ev'.was # <<>>
                       => \A x \in Range(ev'.was[1].users) \ Range(t.str[1].users) :
                            x \notin Range(store'[t.roomId].users)
           /\ (t.cmd = "joinRoom" /\ t.pc = "set" /\ t.ok /\ task'[c] # t)
               => /\ <<t.roomId, c>> \in groups'
                  /\ Len(ev'.emits) = 1 /\ ev'.emits[1].event = "roomJoined"
                  /\ ev'.emits[1].rcpt = {c} \cap Open
                  /\ c \in Range(ev'.emits[1].data.state[1].users)]_vars

\* The joinRoom of a socket has just ended with roomJoined, the socket is
\* connected and in the group, and the stored record, which the leader's seek
\* or playPause wrote from a copy read before the join's set, has position 7
\* and not the socket among its users.
C17_Witness ==
  /\ ev.cmd = "joinRoom" /\ Len(ev.emits) = 1 /\ ev.emits[1].event = "roomJoined"
  /\ ev.emits[1].rcpt = {ev.c}
  /\ conn[ev.c] = "open" /\ task[ev.c].pc = "idle"
  /\ <<ev.key, ev.c>> \in groups
  /\ ev.c \in Range(ev.emits[1].data.state[1].users)
  /\ ev.emits[1].data.state[1].currentTime = 0
  /\ ev.key \in DOMAIN store
  /\ store[ev.key].currentTime = 7
  /\ store[ev.key].leaderId = ev.emits[1].data.state[1].leaderId
  /\ ev.c \notin Range(store[ev.key].users)

\* Socket c is connected and in the group of room k, which has a record.
Member(k, c) == k \in DOMAIN store /\ <<k, c>> \in groups /\ conn[c] = "open"

\* Socket c has just been sent an updateState of room k that is the stored record.
Healed(k, c) ==
  /\ k \in DOMAIN store
  /\ \E i \in 1 .. Len(ev.emits) :
       /\ ev.emits[i].event = "updateState" /\ ev.emits[i].room = k
       /\ c \in ev.emits[i].rcpt
       /\ ev.emits[i].data.state = <<store[k]>>

\* C18: with the periodic sync firing again and again (weak fairness) and the
\* store answering, once the record of a room no longer changes every socket
\* that stays in the group of the room is, again and again, sent an updateState
\* equal to the stored record, also when it was not sent the last change.
C18_SyncHeals ==
  \A k \in PayloadRoomIds : \A c \in SocketIds :
    (<>[](redisUp /\ Member(k, c)) /\ <>[][UNCHANGED store]_vars) => []<>Healed(k, c)

\* A pass has just sent the creator of a room the record with the second user,
\* whose joinRoom was not broadcast.
C18_Witness ==
  /\ ev.cmd = "sync" /\ Len(ev.emits) = 1
  /\ ev.emits[1].room \in DOMAIN store
  /\ Healed(ev.emits[1].room, store[ev.emits[1].room].leaderId)
  /\ Len(store[ev.emits[1].room].users) = 2
  /\ store[ev.emits[1].room].users[2] # store[ev.emits[1].room].leaderId
  /\ store[ev.emits[1].room].users[2] \in ev.emits[1].rcpt

\* No handler and no pass of the periodic sync is in flight.
Quiescent ==
  /\ \A c \in SocketIds : task[c].pc = "idle" /\ dtask[c].pc = "idle"
  /\ stask.pc = "idle"

\* C19: whenever no handler is in flight, every socket id in the users of a
\* stored record (and so every leaderId) is the id of a socket that is still
\* connected: no interleaving of a disconnect handler with a handler still
\* running leaves a disconnected socket as user or leader of a stored room.
C19_MembersConnected ==
  Quiescent =>
    \A k \in DOMAIN store :
      /\ \A i \in 1 .. Len(store[k].users) : conn[store[k].users[i]] = "open"
      /\ conn[store[k].leaderId] = "open"

\* C20: the disconnect handler of socket c never changes the content of a room
\* record that does not have c among its users: when the handler goes on after
\* its get of such a room, the record stored for the room is what the room's
\* own commands wrote last, also when one of them ran after that get.
C20_OtherRoomsUntouched ==
  [][\A c \in SocketIds :
       LET d == dtask[c]
           k == d.roomId
       IN  ( /\ d.pc = "get" /\ d.ok /\ d.str # <<>> /\ dtask'[c] # d
             /\ c \notin Range(d.str[1].users)
             /\ k \in DOMAIN store => c \notin Range(store[k].users) )
           => IF k \in DOMAIN store
                THEN k \in DOMAIN store' /\ store'[k] = store[k]
                ELSE k \notin DOMAIN store']_vars

====
